---- MODULE Spec2Model ----
(***************************************************************************)
(* A model of the BKW analysis backend (src/src/api.py): the in-memory     *)
(* analysis store and the three endpoints analyze_step1, analyze_step2 and *)
(* get_status, with the aggregation that analyze_step2 performs over the   *)
(* per-room power estimates.                                               *)
(*                                                                         *)
(* The handlers are asyncio coroutines: a handler runs without             *)
(* interruption from one await to the next, so each action below is one    *)
(* such stretch of a handler.                                              *)
(***************************************************************************)
EXTENDS Integers, Sequences, FiniteSets, Bags, TLC

VARIABLES
    store,      \* analysis_store._data: analysis id -> stored dict
    next_id,    \* number of uuid4() values drawn so far (each one is fresh)
    cwd,        \* the process working directory (os.getcwd / os.chdir)
    tmpfiles,   \* the temporary files that exist on disk
    reqs,       \* the bag of requests in flight, each the locals of its handler
    last,       \* the response the most recently finished handler gave
    issued      \* history: the ids successful analyze_step1 responses carried

vars == <<store, next_id, cwd, tmpfiles, reqs, last, issued>>

----------------------------------------------------------------------------
(* Bounds of the model.                                                    *)

MaxAnalyses == 1    \* uuid4() values drawn in one behaviour
MaxRequests == 2    \* requests in flight at the same time
MaxRooms == 3       \* rows of a merged table / rooms of an estimator result

----------------------------------------------------------------------------
(* Python numbers.  A float is modelled by the exact rational it stands    *)
(* for, [n |-> numerator, d |-> denominator] in lowest terms with d > 0;   *)
(* NaN is the float nan (pandas' missing value), which every arithmetic    *)
(* operation propagates and every comparison answers False for.            *)
(* ZeroDiv is the outcome of a division by zero (ZeroDivisionError): the   *)
(* handler that evaluates it raises.                                       *)

NaN == [n |-> 0, d |-> 0]
ZeroDiv == [n |-> 1, d |-> 0]

IsNaN(x) == x = NaN
IsZeroDiv(x) == x = ZeroDiv
IsNum(x) == x.d > 0

Abs(i) == IF i < 0 THEN -i ELSE i

RECURSIVE Gcd(_, _)
Gcd(a, b) == IF b = 0 THEN a ELSE Gcd(b, a % b)

Rat(n, d) ==
    LET g == Gcd(Abs(n), d)
    IN  [n |-> n \div g, d |-> d \div g]

Num(i) == [n |-> i, d |-> 1]
Zero == Num(0)

\* The result of a binary float operation whose operands are x and y and
\* whose value on numbers is v.
Lift(x, y, v) ==
    IF IsZeroDiv(x) \/ IsZeroDiv(y) THEN ZeroDiv
    ELSE IF IsNaN(x) \/ IsNaN(y) THEN NaN
    ELSE v

Add(x, y) == Lift(x, y, Rat(x.n * y.d + y.n * x.d, x.d * y.d))
Sub(x, y) == Lift(x, y, Rat(x.n * y.d - y.n * x.d, x.d * y.d))
Mul(x, y) == Lift(x, y, Rat(x.n * y.n, x.d * y.d))

\* x / y: Python raises ZeroDivisionError for a zero divisor (also for nan / 0).
Div(x, y) ==
    IF IsZeroDiv(x) \/ IsZeroDiv(y) THEN ZeroDiv
    ELSE IF IsNum(y) /\ y.n = 0 THEN ZeroDiv
    ELSE IF IsNaN(x) \/ IsNaN(y) THEN NaN
    ELSE IF y.n < 0 THEN Rat(-(x.n * y.d), x.d * (-y.n))
    ELSE Rat(x.n * y.d, x.d * y.n)

\* x > 0: False for nan.
Positive(x) == IsNum(x) /\ x.n > 0

RECURSIVE Pow10(_)
Pow10(k) == IF k = 0 THEN 1 ELSE 10 * Pow10(k - 1)

\* round(x, ndigits): to the nearest multiple of 10^-ndigits, a tie to the
\* even one; round(nan, ndigits) is nan.
Round(x, ndigits) ==
    IF ~IsNum(x) THEN x
    ELSE LET p == Pow10(ndigits)
             s == x.n * p
             q == s \div x.d
             r == s % x.d
             up == (2 * r > x.d) \/ (2 * r = x.d /\ q % 2 = 1)
         IN  Rat(IF up THEN q + 1 ELSE q, p)

\* int(x) for x >= 0: truncation.
Trunc(x) == x.n \div x.d

----------------------------------------------------------------------------
(* The merged table (a pandas DataFrame): its columns and its rows, each   *)
(* row a function from the columns to cell values.  A cell of 'Raum-Nr.'   *)
(* is a room number or NoRoom (a missing value); every other cell is a     *)
(* number or NaN.                                                          *)

NoRoom == "NaN"
RoomNames == <<"101", "102", "103", "104", "105">>

ColRoom == "Raum-Nr."
area_cols == <<"Fläche", "Fläche_heating", "Flaeche">>
roomtype_cols == <<"Nummer Raumtyp", "Raumtyp", "Bezeichnung Raumtyp">>

\* DataFrame.empty: an axis of length 0.
IsEmpty(df) == df.cols = {} \/ Len(df.rows) = 0

\* The loop "for col in names: if col in df.columns: ...; break": the index
\* of the first name that is a column, 0 when none is.
RECURSIVE FirstCol(_, _, _)
FirstCol(names, cols, i) ==
    IF i > Len(names) THEN 0
    ELSE IF names[i] \in cols THEN i
    ELSE FirstCol(names, cols, i + 1)

AreaColIndex(df) == FirstCol(area_cols, df.cols, 1)
RoomTypeColIndex(df) == FirstCol(roomtype_cols, df.cols, 1)

\* Series.sum(), which skips missing values, over rows[i..].
RECURSIVE SumSkipNa(_, _, _)
SumSkipNa(rows, col, i) ==
    IF i > Len(rows) THEN Zero
    ELSE IF IsNaN(rows[i][col]) THEN SumSkipNa(rows, col, i + 1)
    ELSE Add(rows[i][col], SumSkipNa(rows, col, i + 1))

NotNaCount(rows, col) == Cardinality({i \in 1..Len(rows) : ~IsNaN(rows[i][col])})

\* Series.mean(): nan when no value is present.
MeanSkipNa(rows, col) ==
    IF NotNaCount(rows, col) = 0 THEN NaN
    ELSE Div(SumSkipNa(rows, col, 1), Num(NotNaCount(rows, col)))

calculate_room_metrics(df) ==
    LET valid_rooms == IF ColRoom \in df.cols
                       THEN SelectSeq(df.rows, LAMBDA row : row[ColRoom] # NoRoom)
                       ELSE df.rows
        ai == AreaColIndex(df)
        ti == RoomTypeColIndex(df)
    IN  [total_rooms |-> Len(valid_rooms),
         total_area |-> IF ai # 0 THEN SumSkipNa(valid_rooms, area_cols[ai], 1) ELSE Zero,
         avg_area |-> IF ai # 0 THEN MeanSkipNa(valid_rooms, area_cols[ai]) ELSE Zero,
         unique_roomtypes |->
             IF ti # 0
             THEN Cardinality({valid_rooms[i][roomtype_cols[ti]] : i \in 1..Len(valid_rooms)}
                              \ {NaN})
             ELSE 0]

Max(a, b) == IF a >= b THEN a ELSE b

\* optimized_rooms = int(total_rooms * 0.90)
OptimizedRooms(total_rooms) == Trunc(Mul(Num(total_rooms), Rat(9, 10)))

\* The dict analyze_step1 stores for a merged table.
Step1Entry(df) ==
    LET metrics == calculate_room_metrics(df)
    IN  [merged_df |-> df,
         metrics |-> metrics,
         step1_data |-> [optimizedRooms |-> OptimizedRooms(metrics.total_rooms),
                         totalRooms |-> metrics.total_rooms,
                         improvementRate |-> Num(90),
                         confidence |-> Num(98)],
         details |-> [originalRoomTypesCount |-> metrics.unique_roomtypes,
                      optimizedRoomTypesCount |-> Max(metrics.unique_roomtypes - 5, 1),
                      avgRoomSizeM2 |-> Round(metrics.avg_area, 1),
                      totalAreaM2 |-> Round(metrics.total_area, 0)]]

----------------------------------------------------------------------------
(* analyze_step2: the aggregation of the per-room power estimates.         *)

\* The room type mapping of analyze_step2, codes 1..21.
types ==
    << "Flex-/ Co-Work/", "Einzel-/Zweierbüros", "Technikum", "Smart Farming",
       "Robotik", "Verkehrsflächen, Flure", "Teeküchen", "WCs", "ELT-Zentrale",
       "Putzmittel/ Lager", "Lager innenliegend", "TGA-Zentrale", "Etagenverteiler",
       "ELT-Schacht", "Batterieräume", "Drucker-/Kopierräume",
       "Treppenhäuser/Magistrale", "Schächte", "Aufzüge", "Seminarraum", "Diele" >>

\* types.get(room_type, f"Type {room_type}"): the label of a code of the
\* mapping, the text "Type <n>" (here the pair) for any other code.
RoomTypeName(room_type) ==
    IF room_type \in DOMAIN types THEN <<types[room_type]>> ELSE <<"Type", room_type>>

KeyHeating == "heating_W_per_m2"
KeyCooling == "cooling_W_per_m2"
KeyRoomType == "room_type"
KeyPrice == "pricePerKWh"

DefaultArea == Num(20)
DefaultPrice == Rat(3, 10)
DefaultRoomType == 0
HeatingHours == 2000
CoolingHours == 800
BaselineFactor == Rat(122, 100)

\* request.parameters.get("pricePerKWh", 0.30) if request.parameters else 0.30
\* (parameters: None, or a dict; an empty dict is falsy).
PricePerKwh(parameters) ==
    IF parameters.given /\ DOMAIN parameters.dict # {}
    THEN IF KeyPrice \in DOMAIN parameters.dict
         THEN parameters.dict[KeyPrice]
         ELSE DefaultPrice
    ELSE DefaultPrice

\* merged_df[merged_df['Raum-Nr.'] == room_nr]: a missing value equals nothing.
RoomData(df, room_nr) ==
    SelectSeq(df.rows, LAMBDA row : row[ColRoom] # NoRoom /\ row[ColRoom] = room_nr)

\* RoomArea reading the ventilation sheet's area when the table has it.
RoomAreaOfVentilation(df, room_data) ==
    IF "Fläche_ventilation" \in df.cols THEN room_data[1]["Fläche_ventilation"]
    ELSE IF AreaColIndex(df) # 0 THEN room_data[1][area_cols[AreaColIndex(df)]]
    ELSE DefaultArea

\* The area of a room that was found: the first row's cell of the area
\* column, or the default area when the table has no area column.
RoomArea(df, room_data) ==
    LET ai == AreaColIndex(df)
    IN  IF ai # 0 THEN room_data[1][area_cols[ai]] ELSE DefaultArea

\* estimates.get('room_type', 0)
EstimateRoomType(estimates) ==
    IF KeyRoomType \in DOMAIN estimates THEN estimates[KeyRoomType] ELSE DefaultRoomType

\* The index of a group in room_type_stats (insertion order), 0 when absent.
StatIndex(stats, name) ==
    IF \E i \in 1..Len(stats) : stats[i].name = name
    THEN CHOOSE i \in 1..Len(stats) : stats[i].name = name
    ELSE 0

\* AddToStats assigning a group's sums instead of adding to them.
AddToStatsAssigns(stats, name, heating_w, area) ==
    LET with == IF StatIndex(stats, name) = 0
                THEN Append(stats, [name |-> name, total_heating_w |-> Zero,
                                    total_area |-> Zero, count |-> 0])
                ELSE stats
        i == StatIndex(with, name)
    IN  [with EXCEPT ![i] = [name |-> name,
                             total_heating_w |-> heating_w,
                             total_area |-> area,
                             count |-> @.count + 1]]

\* room_type_stats after a room of this group with this power and area.
AddToStats(stats, name, heating_w, area) ==
    LET with == IF StatIndex(stats, name) = 0
                THEN Append(stats, [name |-> name, total_heating_w |-> Zero,
                                    total_area |-> Zero, count |-> 0])
                ELSE stats
        i == StatIndex(with, name)
    IN  [with EXCEPT ![i] = [name |-> name,
                             total_heating_w |-> Add(@.total_heating_w, heating_w),
                             total_area |-> Add(@.total_area, area),
                             count |-> @.count + 1]]

LoopStart ==
    [exc |-> "", total_heating_w |-> Zero, total_cooling_w |-> Zero,
     total_area |-> Zero, room_type_stats |-> <<>>, counted |-> <<>>]

\* One iteration of "for room_nr, estimates in power_estimates.items()".
LoopBody(df, acc, room_nr, estimates) ==
    IF ColRoom \notin df.cols THEN [acc EXCEPT !.exc = "KeyError"]
    ELSE LET room_data == RoomData(df, room_nr)
         IN  IF Len(room_data) = 0 THEN acc
             ELSE IF KeyHeating \notin DOMAIN estimates \/ KeyCooling \notin DOMAIN estimates
             THEN [acc EXCEPT !.exc = "KeyError"]
             ELSE LET area == RoomArea(df, room_data)
                      heating_w == Mul(estimates[KeyHeating], area)
                      cooling_w == Mul(estimates[KeyCooling], area)
                      name == RoomTypeName(EstimateRoomType(estimates))
                  IN  [exc |-> "",
                       total_heating_w |-> Add(acc.total_heating_w, heating_w),
                       total_cooling_w |-> Add(acc.total_cooling_w, cooling_w),
                       total_area |-> Add(acc.total_area, area),
                       room_type_stats |-> AddToStats(acc.room_type_stats, name,
                                                      heating_w, area),
                       counted |-> Append(acc.counted,
                                          [room_nr |-> room_nr, area |-> area,
                                           heating_w |-> heating_w,
                                           cooling_w |-> cooling_w, name |-> name])]

\* The loop over power_estimates (a dict, here the sequence of its items),
\* from item i on; an exception ends it.
RECURSIVE Loop(_, _, _, _)
Loop(df, power_estimates, i, acc) ==
    IF i > Len(power_estimates) \/ acc.exc # "" THEN acc
    ELSE Loop(df, power_estimates, i + 1,
              LoopBody(df, acc, power_estimates[i].room_nr, power_estimates[i].estimates))

\* AvgHeatingWPerM2 without its guard.
AvgHeatingWPerM2Unguarded(total_heating_w, total_area) ==
    Div(total_heating_w, total_area)

\* avg_heating_w_per_m2 = total_heating_w / total_area if total_area > 0 else 0
AvgHeatingWPerM2(total_heating_w, total_area) ==
    IF Positive(total_area) THEN Div(total_heating_w, total_area) ELSE Zero

\* reduction_percentage = (savings_kwh / baseline_kwh * 100) if baseline_kwh > 0 else 0
ReductionPercentage(savings_kwh, baseline_kwh) ==
    IF Positive(baseline_kwh) THEN Mul(Div(savings_kwh, baseline_kwh), Num(100)) ELSE Zero

\* avg_w_per_m2 of a group
GroupAvgWPerM2(stats) ==
    IF Positive(stats.total_area) THEN Div(stats.total_heating_w, stats.total_area) ELSE Zero

\* share_percent of a group
GroupSharePercent(stats, total_area) ==
    IF Positive(total_area) THEN Mul(Div(stats.total_area, total_area), Num(100)) ELSE Zero

\* What analyze_step2 computes from the loop's totals: its local variables,
\* the unrounded breakdown, and the two response models.
Metrics(acc, price_per_kwh) ==
    LET avg_heating_w_per_m2 == AvgHeatingWPerM2(acc.total_heating_w, acc.total_area)
        total_heating_kw == Div(acc.total_heating_w, Num(1000))
        annual_heating_kwh == Mul(total_heating_kw, Num(HeatingHours))
        annual_cooling_kwh == Mul(Div(acc.total_cooling_w, Num(1000)), Num(CoolingHours))
        annual_total_kwh == Add(annual_heating_kwh, annual_cooling_kwh)
        baseline_kwh == Mul(annual_total_kwh, BaselineFactor)
        savings_kwh == Sub(baseline_kwh, annual_total_kwh)
        reduction_percentage == ReductionPercentage(savings_kwh, baseline_kwh)
        annual_savings_eur == Mul(savings_kwh, price_per_kwh)
        groups == [i \in 1..Len(acc.room_type_stats) |->
                      [roomType |-> acc.room_type_stats[i].name,
                       avg_w_per_m2 |-> GroupAvgWPerM2(acc.room_type_stats[i]),
                       share_percent |-> GroupSharePercent(acc.room_type_stats[i],
                                                           acc.total_area)]]
    IN  [locals |->
            [total_heating_w |-> acc.total_heating_w,
             total_cooling_w |-> acc.total_cooling_w,
             total_area |-> acc.total_area,
             room_type_stats |-> acc.room_type_stats,
             counted |-> acc.counted,
             price_per_kwh |-> price_per_kwh,
             avg_heating_w_per_m2 |-> avg_heating_w_per_m2,
             total_heating_kw |-> total_heating_kw,
             annual_total_kwh |-> annual_total_kwh,
             baseline_kwh |-> baseline_kwh,
             savings_kwh |-> savings_kwh,
             reduction_percentage |-> reduction_percentage,
             annual_savings_eur |-> annual_savings_eur,
             groups |-> groups],
         step2_data |->
            [energyConsumption |-> Round(avg_heating_w_per_m2, 1),
             reductionPercentage |-> Round(reduction_percentage, 1),
             annualSavings |-> Round(annual_savings_eur, 0)],
         details |->
            [heatingPowerKw |-> Round(total_heating_kw, 1),
             annualConsumptionKwh |-> Round(annual_total_kwh, 0),
             savingsKwh |-> Round(savings_kwh, 0),
             breakdownByRoomType |->
                 [i \in 1..Len(groups) |->
                     [roomType |-> groups[i].roomType,
                      wPerM2 |-> Round(groups[i].avg_w_per_m2, 1),
                      sharePercent |-> Round(groups[i].share_percent, 1)]]]]

\* The simulated data analyze_step2 answers with when the estimator returned
\* nothing.
SimulatedReport ==
    [locals |-> [simulated |-> TRUE],
     step2_data |-> [energyConsumption |-> Num(45), reductionPercentage |-> Num(18),
                     annualSavings |-> Num(7800)],
     details |-> [heatingPowerKw |-> Num(57), annualConsumptionKwh |-> Num(143820),
                  savingsKwh |-> Num(25680),
                  breakdownByRoomType |->
                      << [roomType |-> <<"Büros">>, wPerM2 |-> Num(42),
                          sharePercent |-> Num(40)],
                         [roomType |-> <<"Konferenzräume">>, wPerM2 |-> Num(55),
                          sharePercent |-> Num(25)] >>]]

\* Whether a division of the metrics raised ZeroDivisionError.
DivisionRaised(m) ==
    \/ IsZeroDiv(m.locals.avg_heating_w_per_m2)
    \/ IsZeroDiv(m.locals.reduction_percentage)
    \/ \E i \in 1..Len(m.locals.groups) :
          IsZeroDiv(m.locals.groups[i].avg_w_per_m2) \/ IsZeroDiv(m.locals.groups[i].share_percent)

\* The body of analyze_step2's outer try once the estimator has returned
\* power_estimates: [exc |-> the exception raised, "" when none,
\* report |-> the metrics and the response models].
Report(df, power_estimates, price_per_kwh) ==
    IF Len(power_estimates) = 0 THEN [exc |-> "", report |-> SimulatedReport]
    ELSE LET acc == Loop(df, power_estimates, 1, LoopStart)
         IN  IF acc.exc # "" THEN [exc |-> acc.exc, report |-> [locals |-> [raised |-> TRUE]]]
             ELSE LET m == Metrics(acc, price_per_kwh)
                  IN  IF DivisionRaised(m)
                      THEN [exc |-> "ZeroDivisionError", report |-> [locals |-> [raised |-> TRUE]]]
                      ELSE [exc |-> "", report |-> m]

----------------------------------------------------------------------------
(* The store, AnalysisStore: a dict from analysis id to the stored dict.   *)
(* save() also stamps created_at with the wall clock, which no handler     *)
(* reads; it is left out of the stored dict.                               *)

StoreExists(s, analysis_id) == analysis_id \in DOMAIN s
StoreGet(s, analysis_id) == s[analysis_id]
StoreSave(s, analysis_id, data) ==
    [k \in DOMAIN s \cup {analysis_id} |-> IF k = analysis_id THEN data ELSE s[k]]

\* A dict with one more key (analysis_data["key"] = value).
SetKey(dict, key, value) ==
    [k \in DOMAIN dict \cup {key} |-> IF k = key THEN value ELSE dict[k]]

----------------------------------------------------------------------------
(* Requests and responses.                                                 *)

AnalysisIds == 1..MaxAnalyses

OriginalDir == "cwd"
PowerDir == "src/power"

HeatingFile(analysis_id) == <<analysis_id, "heating">>
VentilationFile(analysis_id) == <<analysis_id, "ventilation">>

\* The locals of a handler that is suspended at an await; pc names the await.
Locals ==
    [pc |-> "", analysis_id |-> 0, heating_path |-> FALSE,
     ventilation_path |-> FALSE, parameters |-> [given |-> FALSE, dict |-> <<>>],
     price_per_kwh |-> Zero, original_cwd |-> ""]

InFlight == BagToSet(reqs)
Suspend(bag, req) == bag (+) SetToBag({req})
Resume(bag, req) == bag (-) SetToBag({req})
CanAccept == BagCardinality(reqs) < MaxRequests

\* A response: the endpoint, the HTTP status, the analysis id of the request
\* (for analyze_step1 the id it drew, 0 when it drew none), the detail of an
\* HTTPException, the body of a 200, and, as history, the inputs the handler
\* worked on (for analyze_step2 also whether the response before it answered
\* the same request with the same estimator result).
NoResponse ==
    [endpoint |-> "", status |-> 0, analysis_id |-> 0, detail |-> <<>>,
     body |-> [none |-> TRUE], input |-> [none |-> TRUE]]

Response(endpoint, status, analysis_id, detail, body, input) ==
    [endpoint |-> endpoint, status |-> status, analysis_id |-> analysis_id,
     detail |-> detail, body |-> body, input |-> input]

HttpError(endpoint, status, analysis_id, detail, input) ==
    Response(endpoint, status, analysis_id, detail, [none |-> TRUE], input)

\* Whether "except Exception" catches an exception of this type:
\* asyncio.CancelledError, raised at an await of a cancelled request, derives
\* from BaseException only.
IsException(type) == type # "CancelledError"

allowed_extensions == {".xls", ".xlsx", ".xlsm"}

\* validate_filename, on the lower-cased extension of the file name.
validate_filename(extension) == extension \in allowed_extensions

\* Step1Failure with a single except clause: every exception answered 400.
Step1FailureAlways400(analysis_id, exc, input) ==
    HttpError("step1", 400, analysis_id, <<"Validation error", exc.cause>>, input)

\* The response of analyze_step1's two except clauses for an exception
\* raised inside its try.
\* An exception is [type, cause]; the type "ValueError" stands for ValueError
\* and its subclasses, which "except ValueError" catches alike.  An exception
\* that "except Exception" does not catch leaves the handler: the request
\* gets no response of the handler (status 0).
Step1Failure(analysis_id, exc, input) ==
    IF exc.type = "ValueError"
    THEN HttpError("step1", 400, analysis_id, <<"Validation error", exc.cause>>, input)
    ELSE IF ~IsException(exc.type)
    THEN HttpError("step1", 0, analysis_id, <<exc.type>>, input)
    ELSE HttpError("step1", 422, analysis_id, <<"Failed to process Excel files", exc.cause>>,
                   input)

\* The temporary files left once the except and finally clauses of
\* analyze_step1 have unlinked those its two path variables name.
Step1Cleanup(files, req) ==
    files \ ((IF req.heating_path THEN {HeatingFile(req.analysis_id)} ELSE {})
             \cup (IF req.ventilation_path THEN {VentilationFile(req.analysis_id)} ELSE {}))

\* The temporary files after save_uploaded_file's "except Exception" clause
\* for an exception raised while it reads and writes the upload: the file it
\* created is unlinked when the clause catches the exception.
UploadFailed(files, temp_path, exc) ==
    IF IsException(exc.type) THEN files \ {temp_path} ELSE files

\* analyze_step1 up to its first await: the file names are validated, the
\* analysis id is drawn and save_uploaded_file creates the first temporary
\* file and awaits the upload.
Step1Begin(heating_ext, ventilation_ext) ==
    /\ CanAccept
    /\ IF ~validate_filename(heating_ext)
       THEN /\ last' = HttpError("step1", 400, 0, <<"Invalid heating file type">>,
                                 [stage |-> "validate"])
            /\ UNCHANGED <<store, next_id, cwd, tmpfiles, reqs, issued>>
       ELSE IF ~validate_filename(ventilation_ext)
       THEN /\ last' = HttpError("step1", 400, 0, <<"Invalid ventilation file type">>,
                                 [stage |-> "validate"])
            /\ UNCHANGED <<store, next_id, cwd, tmpfiles, reqs, issued>>
       ELSE /\ next_id < MaxAnalyses
            /\ next_id' = next_id + 1
            /\ tmpfiles' = tmpfiles \cup {HeatingFile(next_id + 1)}
            /\ reqs' = Suspend(reqs, [Locals EXCEPT !.pc = "s1_read_heating",
                                                     !.analysis_id = next_id + 1])
            /\ UNCHANGED <<store, cwd, last, issued>>

\* The first upload has been read (or reading it raised): the file is
\* written and the second temporary file is created.
Step1HeatingRead(req, read) ==
    /\ req.pc = "s1_read_heating"
    /\ IF read.raised
       THEN /\ tmpfiles' = Step1Cleanup(UploadFailed(tmpfiles, HeatingFile(req.analysis_id),
                                                     read.exc), req)
            /\ last' = Step1Failure(req.analysis_id, read.exc, [stage |-> "read_heating"])
            /\ reqs' = Resume(reqs, req)
       ELSE /\ tmpfiles' = tmpfiles \cup {VentilationFile(req.analysis_id)}
            /\ reqs' = Suspend(Resume(reqs, req),
                               [req EXCEPT !.pc = "s1_read_ventilation",
                                           !.heating_path = TRUE])
            /\ UNCHANGED last
    /\ UNCHANGED <<store, next_id, cwd, issued>>

\* The second upload has been read (or reading it raised): the merge is
\* called and awaited.
Step1VentilationRead(req, read) ==
    /\ req.pc = "s1_read_ventilation"
    /\ IF read.raised
       THEN /\ tmpfiles' = Step1Cleanup(UploadFailed(tmpfiles,
                                                     VentilationFile(req.analysis_id),
                                                     read.exc), req)
            /\ last' = Step1Failure(req.analysis_id, read.exc, [stage |-> "read_ventilation"])
            /\ reqs' = Resume(reqs, req)
       ELSE /\ reqs' = Suspend(Resume(reqs, req),
                               [req EXCEPT !.pc = "s1_merge", !.ventilation_path = TRUE])
            /\ UNCHANGED <<tmpfiles, last>>
    /\ UNCHANGED <<store, next_id, cwd, issued>>

EmptyMergeCause == "Merged DataFrame is empty. Please check the input files."

\* Step1Process without the check for an empty merged table.
Step1ProcessNoEmptyCheck(merge, export) ==
    IF merge.raised THEN [exc |-> merge.exc, entry |-> <<>>]
    ELSE IF export.raised THEN [exc |-> export.exc, entry |-> <<>>]
    ELSE [exc |-> [type |-> "", cause |-> ""], entry |-> Step1Entry(merge.df)]

\* What analyze_step1 does with the merge's outcome, up to the point where
\* it would store the analysis: [exc |-> the exception raised in its try
\* (type "" when none), entry |-> the dict to store].
Step1Process(merge, export) ==
    IF merge.raised THEN [exc |-> merge.exc, entry |-> <<>>]
    ELSE IF IsEmpty(merge.df)
    THEN [exc |-> [type |-> "ValueError", cause |-> EmptyMergeCause], entry |-> <<>>]
    ELSE IF export.raised THEN [exc |-> export.exc, entry |-> <<>>]
    ELSE [exc |-> [type |-> "", cause |-> ""], entry |-> Step1Entry(merge.df)]

\* Step1Store saving before the outcome is known.
Step1StoreAlways(s, analysis_id, processed) ==
    StoreSave(s, analysis_id, processed.entry)

\* The store after analyze_step1 has processed the merge's outcome.
Step1Store(s, analysis_id, processed) ==
    IF processed.exc.type = "" THEN StoreSave(s, analysis_id, processed.entry) ELSE s

\* The merge has returned or raised: the rest of analyze_step1.
Step1Merge(req, merge, export) ==
    /\ req.pc = "s1_merge"
    /\ \E processed \in {Step1Process(merge, export)} :
       LET analysis_id == req.analysis_id
           input == [stage |-> "merge", merge |-> merge, export |-> export]
       IN  /\ store' = Step1Store(store, analysis_id, processed)
           /\ IF processed.exc.type = ""
              THEN /\ last' = Response("step1", 200, analysis_id, <<>>,
                                       [analysisId |-> analysis_id,
                                        step1 |-> processed.entry.step1_data,
                                        details |-> processed.entry.details], input)
                   /\ issued' = issued \cup {analysis_id}
              ELSE /\ last' = Step1Failure(analysis_id, processed.exc, input)
                   /\ UNCHANGED issued
    /\ tmpfiles' = Step1Cleanup(tmpfiles, req)
    /\ reqs' = Resume(reqs, req)
    /\ UNCHANGED <<next_id, cwd>>

\* analyze_step2 up to its await: the id is looked up, the price is read
\* from the parameters and the process changes to the power directory.
Step2Begin(analysis_id, parameters) ==
    /\ CanAccept
    /\ IF ~StoreExists(store, analysis_id)
       THEN /\ last' = HttpError("step2", 404, analysis_id, <<"Analysis ID not found">>,
                                 [parameters |-> parameters])
            /\ UNCHANGED <<cwd, reqs>>
       ELSE /\ reqs' = Suspend(reqs, [Locals EXCEPT !.pc = "s2_estimate",
                                                     !.analysis_id = analysis_id,
                                                     !.parameters = parameters,
                                                     !.price_per_kwh = PricePerKwh(parameters),
                                                     !.original_cwd = cwd])
            /\ cwd' = PowerDir
            /\ UNCHANGED last
    /\ UNCHANGED <<store, next_id, tmpfiles, issued>>

\* The outcome of analyze_step2's outer try for the estimator's outcome:
\* the exception raised ("" when none) and the report.
Step2Process(df, estimation, price_per_kwh) ==
    IF estimation.raised
    THEN [exc |-> estimation.exc.type, report |-> [locals |-> [raised |-> TRUE]]]
    ELSE Report(df, estimation.power_estimates, price_per_kwh)

\* Step2Entry storing the table without its rows.
Step2EntryDropsRows(analysis_data, report, power_estimates) ==
    SetKey(SetKey(SetKey(SetKey(analysis_data, "step2_data", report.step2_data),
                         "step2_details", report.details),
                  "power_estimates", power_estimates),
           "merged_df", [cols |-> analysis_data.merged_df.cols, rows |-> <<>>])

\* The dict analyze_step2 saves: the stored one with the step 2 results.
Step2Entry(analysis_data, report, power_estimates) ==
    SetKey(SetKey(SetKey(analysis_data, "step2_data", report.step2_data),
                  "step2_details", report.details),
           "power_estimates", power_estimates)

\* Step2Store dropping the entry of an analysis whose report failed.
Step2StoreDropsOnError(s, analysis_id, processed, power_estimates) ==
    IF processed.exc = ""
    THEN StoreSave(s, analysis_id,
                   SetKey(SetKey(SetKey(StoreGet(s, analysis_id),
                                        "step2_data", processed.report.step2_data),
                                 "step2_details", processed.report.details),
                          "power_estimates", power_estimates))
    ELSE [k \in DOMAIN s \ {analysis_id} |-> s[k]]

\* Step2Store recording the estimator's result before the report is computed.
Step2StoreKeepsEstimates(s, analysis_id, processed, power_estimates) ==
    IF processed.exc = ""
    THEN StoreSave(s, analysis_id,
                   SetKey(SetKey(SetKey(StoreGet(s, analysis_id),
                                        "step2_data", processed.report.step2_data),
                                 "step2_details", processed.report.details),
                          "power_estimates", power_estimates))
    ELSE StoreSave(s, analysis_id,
                   SetKey(StoreGet(s, analysis_id), "power_estimates", power_estimates))

\* The store after analyze_step2 has processed the estimator's outcome.
Step2Store(s, analysis_id, processed, power_estimates) ==
    IF processed.exc = ""
    THEN StoreSave(s, analysis_id,
                   Step2Entry(StoreGet(s, analysis_id), processed.report, power_estimates))
    ELSE s

\* The estimator has returned or raised: the working directory is restored
\* and the rest of analyze_step2 runs.  analysis_data is the very dict the
\* store holds, and merged_df was rebuilt from it before the await; no
\* handler changes a stored merged_df, so both are read from the store here.
Step2End(req, estimation) ==
    /\ req.pc = "s2_estimate"
    /\ \E processed \in {Step2Process(StoreGet(store, req.analysis_id).merged_df,
                                       estimation, req.price_per_kwh)} :
       LET analysis_id == req.analysis_id
           input == [parameters |-> req.parameters, estimation |-> estimation,
                     repeats |-> /\ last.endpoint = "step2"
                                 /\ last.status = 200
                                 /\ last.analysis_id = analysis_id
                                 /\ last.input.parameters = req.parameters
                                 /\ last.input.estimation = estimation]
       IN  /\ store' = Step2Store(store, analysis_id, processed, estimation.power_estimates)
           /\ last' = IF processed.exc = ""
                      THEN Response("step2", 200, analysis_id, <<>>,
                                    [step2 |-> processed.report.step2_data,
                                     details |-> processed.report.details,
                                     locals |-> processed.report.locals], input)
                      ELSE HttpError("step2", 500, analysis_id,
                                     <<"Failed to calculate energy metrics", processed.exc>>,
                                     input)
    /\ cwd' = req.original_cwd
    /\ reqs' = Resume(reqs, req)
    /\ UNCHANGED <<next_id, tmpfiles, issued>>

\* StatusOf taking an analysis without step 2 results for one in progress.
StatusOfInProgress(analysis_id, analysis_data) ==
    LET has_step2 == "step2_data" \in DOMAIN analysis_data
        state == IF has_step2 THEN "completed" ELSE "processing"
        step == IF has_step2 THEN "report" ELSE "None"
    IN  [analysisId |-> analysis_id, state |-> state, step |-> step,
         progressPercent |-> IF state = "completed" THEN 100 ELSE 50]

\* The body of get_status's answer for a stored dict.
StatusOf(analysis_id, analysis_data) ==
    LET has_step1 == "step1_data" \in DOMAIN analysis_data
        has_step2 == "step2_data" \in DOMAIN analysis_data
        state == IF has_step2 \/ has_step1 THEN "completed" ELSE "processing"
        step == IF has_step2 THEN "report" ELSE IF has_step1 THEN "step1" ELSE "None"
    IN  [analysisId |-> analysis_id, state |-> state, step |-> step,
         progressPercent |-> IF state = "completed" THEN 100 ELSE 50]

get_status(analysis_id) ==
    /\ last' = IF ~StoreExists(store, analysis_id)
               THEN HttpError("status", 404, analysis_id, <<"Analysis not found">>,
                              [none |-> TRUE])
               ELSE Response("status", 200, analysis_id, <<>>,
                             StatusOf(analysis_id, StoreGet(store, analysis_id)),
                             [none |-> TRUE])
    /\ UNCHANGED <<store, next_id, cwd, tmpfiles, reqs, issued>>

----------------------------------------------------------------------------
(* The inputs of the endpoints.                                            *)

Extensions == {".xlsx", ".csv"}

NoExc == [type |-> "", cause |-> ""]
Raise(type, cause) == [raised |-> TRUE, exc |-> [type |-> type, cause |-> cause]]

\* Reading an upload: it succeeds, or raises a ValueError or another exception.
ReadOutcomes ==
    {[raised |-> FALSE, exc |-> NoExc],
     Raise("ValueError", "I/O operation on closed file"),
     Raise("OSError", "No space left on device")}

\* df_to_base64_excel: it succeeds or raises.
ExportOutcomes ==
    {[raised |-> FALSE, exc |-> NoExc], Raise("OSError", "No space left on device")}

Table(cols, rows) == [cols |-> cols, rows |-> rows]
Returned(df) == [raised |-> FALSE, exc |-> NoExc, df |-> df]
MergeRaise(type, cause) == [raised |-> TRUE, exc |-> [type |-> type, cause |-> cause],
                            df |-> Table({}, <<>>)]

Row2(room_nr, area) == (ColRoom :> room_nr) @@ (area_cols[1] :> area)

\* Merged tables of the endpoint model: one without rows, one room with an
\* area, one table without 'Raum-Nr.'.
SampleTables ==
    {Table({ColRoom, area_cols[1]}, <<>>),
     Table({ColRoom, area_cols[1]}, <<Row2(RoomNames[1], Num(20))>>),
     Table({area_cols[1]}, <<(area_cols[1] :> Num(20))>>)}

\* merge_heating_ventilation_excel: it returns a table, or raises a
\* ValueError or another exception.
MergeOutcomes ==
    {Returned(df) : df \in SampleTables}
    \cup {MergeRaise("ValueError", "No header row found"),
          MergeRaise("KeyError", "Raum-Nr.")}

Estimate(heating, cooling, room_type) ==
    (KeyHeating :> heating) @@ (KeyCooling :> cooling) @@ (KeyRoomType :> room_type)

Item(room_nr, estimates) == [room_nr |-> room_nr, estimates |-> estimates]

Estimated(power_estimates) ==
    [raised |-> FALSE, exc |-> NoExc, power_estimates |-> power_estimates]

\* test_cost_analysis in the endpoint model: it raises, returns nothing, an
\* estimate for room 101, or an estimate that lacks the heating density.
EstimatorOutcomes ==
    {[raised |-> TRUE, exc |-> [type |-> "RuntimeError", cause |-> "estimation failed"],
      power_estimates |-> <<>>],
     Estimated(<<>>),
     Estimated(<<Item(RoomNames[1], Estimate(Num(40), Num(10), 2))>>),
     Estimated(<<Item(RoomNames[1], (KeyCooling :> Num(10)))>>)}

NoParameters == [given |-> FALSE, dict |-> <<>>]
Parameters(dict) == [given |-> TRUE, dict |-> dict]

ParameterChoices == {NoParameters, Parameters((KeyPrice :> Rat(1, 4)))}

----------------------------------------------------------------------------
(* The endpoint model: any number of requests, up to MaxRequests of them   *)
(* in flight at once.                                                      *)

Init ==
    /\ store = <<>>
    /\ next_id = 0
    /\ cwd = OriginalDir
    /\ tmpfiles = {}
    /\ reqs = EmptyBag
    /\ last = NoResponse
    /\ issued = {}

Next ==
    \/ \E h \in Extensions, v \in Extensions : Step1Begin(h, v)
    \/ \E req \in InFlight, read \in ReadOutcomes : Step1HeatingRead(req, read)
    \/ \E req \in InFlight, read \in ReadOutcomes : Step1VentilationRead(req, read)
    \/ \E req \in InFlight, merge \in MergeOutcomes, export \in ExportOutcomes :
          Step1Merge(req, merge, export)
    \/ \E analysis_id \in AnalysisIds, parameters \in ParameterChoices :
          Step2Begin(analysis_id, parameters)
    \/ \E req \in InFlight, estimation \in EstimatorOutcomes : Step2End(req, estimation)
    \/ \E analysis_id \in AnalysisIds : get_status(analysis_id)

Spec == Init /\ [][Next]_vars

----------------------------------------------------------------------------
(* The aggregation model: one stored analysis, whose merged table has up   *)
(* to MaxRooms rooms, and the first analyze_step2 request for it, with     *)
(* every estimator result over those rooms.                                *)

AreaValues == {NaN, Num(0), Num(20)}

\* The tables with the rooms 1..k, one row each in this order, over these
\* columns; every cell of an area column is one of AreaValues.
TablesWith(cols, k) ==
    {Table(cols, [i \in 1..k |->
                     [c \in cols |-> IF c = ColRoom THEN RoomNames[i] ELSE areas[i]]]) :
        areas \in [1..k -> AreaValues]}

AggTables ==
    UNION {TablesWith({ColRoom, area_cols[1]}, k) \cup TablesWith({ColRoom}, k)
              : k \in 1..MaxRooms}
    \cup TablesWith({area_cols[1]}, 1)

\* What the estimator may say of one room: nothing, or an estimate with a
\* room type of the mapping, with another room type, or without a room type.
RoomEstimates ==
    {Estimate(Num(40), Num(10), 1), Estimate(Num(30), Num(0), 99),
     (KeyHeating :> Num(50)) @@ (KeyCooling :> Num(20))}

RECURSIVE ItemsOf(_, _)
ItemsOf(choice, i) ==
    IF i > MaxRooms THEN <<>>
    ELSE IF choice[i] = <<>> THEN ItemsOf(choice, i + 1)
    ELSE <<Item(RoomNames[i], choice[i])>> \o ItemsOf(choice, i + 1)

AggEstimatorOutcomes ==
    {Estimated(ItemsOf(choice, 1)) : choice \in [1..MaxRooms -> RoomEstimates \cup {<<>>}]}
    \cup {[raised |-> TRUE, exc |-> [type |-> "RuntimeError", cause |-> "estimation failed"],
           power_estimates |-> <<>>]}

AggParameterChoices ==
    {NoParameters, Parameters((KeyPrice :> Rat(1, 4))), Parameters(("climateZone" :> Num(3)))}

\* The state after one successful analyze_step1 whose merge gave df.
AggInit ==
    \E df \in AggTables :
        /\ store = StoreSave(<<>>, 1, Step1Entry(df))
        /\ next_id = 1
        /\ cwd = OriginalDir
        /\ tmpfiles = {}
        /\ reqs = EmptyBag
        /\ last = Response("step1", 200, 1, <<>>,
                           [analysisId |-> 1, step1 |-> Step1Entry(df).step1_data,
                            details |-> Step1Entry(df).details],
                           [stage |-> "merge", merge |-> Returned(df),
                            export |-> [raised |-> FALSE, exc |-> NoExc]])
        /\ issued = {1}

AggNext ==
    \/ \E parameters \in AggParameterChoices :
          /\ reqs = EmptyBag
          /\ last.endpoint = "step1"
          /\ Step2Begin(1, parameters)
    \/ \E req \in InFlight, estimation \in AggEstimatorOutcomes : Step2End(req, estimation)

AggSpec == AggInit /\ [][AggNext]_vars

----------------------------------------------------------------------------
(* Properties of analyze_step1 and of the store.                           *)

\* The last response is analyze_step1's, given after the merge returned or
\* raised.
AfterMerge == last.endpoint = "step1" /\ last.input.stage = "merge"

\* C1: when the merge yields an empty table, analyze_step1 answers 400 with
\* a validation error and saves no entry for the analysis.
C1_EmptyMergeRejected ==
    (AfterMerge /\ ~last.input.merge.raised /\ IsEmpty(last.input.merge.df))
        => /\ last.status = 400
           /\ last.detail = <<"Validation error", EmptyMergeCause>>
           /\ ~StoreExists(store, last.analysis_id)

C1_Witness ==
    AfterMerge /\ ~last.input.merge.raised /\ IsEmpty(last.input.merge.df)

\* C2: for every analysis a successful analyze_step1 stored, an
\* analyze_step2 request whose estimator returns (with or without results,
\* with or without the density keys) is answered 200 with a report.
C2_Step2AlwaysReports ==
    (last.endpoint = "step2" /\ last.analysis_id \in issued /\ ~last.input.estimation.raised)
        => last.status = 200

\* C3: a failing analyze_step1 leaves the store as it was and its id is not
\* in the store; the store only ever holds ids that a successful
\* analyze_step1 returned, so no later request finds the failed one.
C3_FailedStep1LeavesStore ==
    /\ [](DOMAIN store \subseteq issued)
    /\ [][(last'.endpoint = "step1" /\ last'.status # 200)
             => (store' = store /\ ~StoreExists(store', last'.analysis_id))]_vars

C3_Witness ==
    AfterMerge /\ last.status = 422 /\ ~last.input.merge.raised

\* C4: analyze_step2 and get_status answer 404 exactly for the ids no
\* successful analyze_step1 has returned, and every id returned stays in
\* the store.
C4_NotFoundIffNeverIssued ==
    /\ DOMAIN store = issued
    /\ last.endpoint \in {"step2", "status"}
          => (last.status = 404 <=> last.analysis_id \notin issued)

C4_Witness ==
    last.endpoint = "status" /\ last.status = 200 /\ last.body.step = "report"

\* C5, as claimed: every failure the merge raises is answered 400 with the
\* detail "Validation error: <cause>", whatever its type.
C5_AnyMergeFailureIs400 ==
    (AfterMerge /\ last.input.merge.raised)
        => /\ last.status = 400
           /\ last.detail = <<"Validation error", last.input.merge.exc.cause>>

\* C5, amended: a ValueError the merge raises is answered 400 with the
\* detail "Validation error: <cause>"; any other exception is answered 422
\* with the detail "Failed to process Excel files: <cause>".
C5_MergeFailureIs400Or422 ==
    (AfterMerge /\ last.input.merge.raised)
        => IF last.input.merge.exc.type = "ValueError"
           THEN /\ last.status = 400
                /\ last.detail = <<"Validation error", last.input.merge.exc.cause>>
           ELSE /\ last.status = 422
                /\ last.detail = <<"Failed to process Excel files",
                                   last.input.merge.exc.cause>>

C5_Witness ==
    AfterMerge /\ last.input.merge.raised /\ last.status = 422

----------------------------------------------------------------------------
(* Properties of analyze_step2's aggregation.                              *)

\* The last response is a report analyze_step2 computed from estimates.
Computed ==
    /\ last.endpoint = "step2"
    /\ last.status = 200
    /\ "counted" \in DOMAIN last.body.locals

TheTable == store[last.analysis_id].merged_df
TheEstimates == last.input.estimation.power_estimates
TheLocals == last.body.locals

\* The rooms of the estimator's result that have a row in the table, in the
\* result's order, and the estimates of each.
FoundItems ==
    SelectSeq(TheEstimates,
              LAMBDA item : \E i \in 1..Len(TheTable.rows) :
                                TheTable.rows[i][ColRoom] = item.room_nr)

\* The area cell of a room's first row.
AreaCell(room_nr) ==
    LET i == CHOOSE j \in 1..Len(TheTable.rows) :
                 /\ TheTable.rows[j][ColRoom] = room_nr
                 /\ \A k \in 1..(j - 1) : TheTable.rows[k][ColRoom] # room_nr
    IN  TheTable.rows[i][area_cols[AreaColIndex(TheTable)]]

HasAreaColumn == AreaColIndex(TheTable) # 0

RECURSIVE SumOf(_, _)
SumOf(f, n) == IF n = 0 THEN Zero ELSE Add(SumOf(f, n - 1), f[n])

\* C6: a room whose area cell is missing contributes the power of the
\* default area of 20 m2, and the totals and the breakdown are numbers.
C6_MissingAreaUsesDefault ==
    Computed =>
        /\ \A i \in 1..Len(FoundItems) :
              (HasAreaColumn /\ IsNaN(AreaCell(FoundItems[i].room_nr)))
                  => /\ TheLocals.counted[i].heating_w
                            = Mul(FoundItems[i].estimates[KeyHeating], Num(20))
                     /\ TheLocals.counted[i].cooling_w
                            = Mul(FoundItems[i].estimates[KeyCooling], Num(20))
        /\ IsNum(TheLocals.total_heating_w)
        /\ IsNum(TheLocals.total_cooling_w)
        /\ \A g \in 1..Len(TheLocals.groups) :
              IsNum(TheLocals.groups[g].avg_w_per_m2) /\ IsNum(TheLocals.groups[g].share_percent)

\* C7: no division of analyze_step2 raises, and a zero total area gives an
\* average and shares of 0, a zero group area a group average of 0, a zero
\* baseline a reduction of 0.
C7_DivisionsGuarded ==
    /\ (last.endpoint = "step2" /\ last.status = 500)
          => last.detail[2] # "ZeroDivisionError"
    /\ Computed =>
          /\ TheLocals.total_area = Zero
                => /\ TheLocals.avg_heating_w_per_m2 = Zero
                   /\ \A g \in 1..Len(TheLocals.groups) :
                         TheLocals.groups[g].share_percent = Zero
          /\ \A g \in 1..Len(TheLocals.groups) :
                TheLocals.room_type_stats[g].total_area = Zero
                    => TheLocals.groups[g].avg_w_per_m2 = Zero
          /\ TheLocals.baseline_kwh = Zero => TheLocals.reduction_percentage = Zero

C7_Witness ==
    /\ Computed
    /\ TheLocals.total_area = Zero
    /\ TheLocals.baseline_kwh = Zero
    /\ Len(TheLocals.groups) > 0

\* The price the request asks for: its parameter, or 0.30 when it has no
\* parameters or they lack the key.
ClaimedPrice ==
    LET parameters == last.input.parameters
    IN  IF parameters.given /\ KeyPrice \in DOMAIN parameters.dict
        THEN parameters.dict[KeyPrice]
        ELSE Rat(30, 100)

\* C8: the totals are the sums of density x area over the counted rooms,
\* and consumption, baseline, savings, reduction and money follow from them
\* by the stated formulas.
C8_Formulas ==
    Computed =>
        LET l == TheLocals
            n == Len(FoundItems)
            annual == Add(Mul(Div(l.total_heating_w, Num(1000)), Num(2000)),
                          Mul(Div(l.total_cooling_w, Num(1000)), Num(800)))
        IN  /\ Len(l.counted) = n
            /\ l.total_heating_w
                  = SumOf([i \in 1..n |-> Mul(FoundItems[i].estimates[KeyHeating],
                                              l.counted[i].area)], n)
            /\ l.total_cooling_w
                  = SumOf([i \in 1..n |-> Mul(FoundItems[i].estimates[KeyCooling],
                                              l.counted[i].area)], n)
            /\ l.annual_total_kwh = annual
            /\ l.baseline_kwh = Mul(annual, Rat(122, 100))
            /\ l.savings_kwh = Sub(l.baseline_kwh, annual)
            /\ l.baseline_kwh # Zero
                  => l.reduction_percentage
                        = Mul(Div(l.savings_kwh, l.baseline_kwh), Num(100))
            /\ l.price_per_kwh = ClaimedPrice
            /\ l.annual_savings_eur = Mul(l.savings_kwh, ClaimedPrice)

\* The label the claim gives a room's estimates.
ClaimedGroup(estimates) ==
    LET code == IF KeyRoomType \in DOMAIN estimates THEN estimates[KeyRoomType] ELSE 0
    IN  IF code \in 1..21 THEN <<types[code]>> ELSE <<"Type", code>>

\* C10: every counted room is in exactly one group, the one of its room
\* type; the group areas, heating powers and counts sum to the totals, and
\* the area shares sum to 100 when the total area is positive (the shares
\* as computed; the reported ones, rounded to one decimal each, then sum to
\* 100 within 0.05 per group).
C10_GroupsPartition ==
    Computed =>
        LET l == TheLocals
            g == Len(l.room_type_stats)
        IN  /\ \A i \in 1..Len(l.counted) :
                  /\ l.counted[i].name = ClaimedGroup(FoundItems[i].estimates)
                  /\ Cardinality({k \in 1..g :
                                     l.room_type_stats[k].name = l.counted[i].name}) = 1
            /\ SumOf([k \in 1..g |-> l.room_type_stats[k].total_area], g) = l.total_area
            /\ SumOf([k \in 1..g |-> l.room_type_stats[k].total_heating_w], g)
                  = l.total_heating_w
            /\ SumOf([k \in 1..g |-> Num(l.room_type_stats[k].count)], g)
                  = Num(Len(l.counted))
            /\ Positive(l.total_area)
                  => /\ SumOf([k \in 1..g |-> l.groups[k].share_percent], g) = Num(100)
                     /\ LET reported == last.body.details.breakdownByRoomType
                            off == Sub(SumOf([k \in 1..g |-> reported[k].sharePercent], g),
                                       Num(100))
                        IN  /\ ~Positive(Sub(off, Rat(g, 20)))
                            /\ ~Positive(Sub(Rat(-g, 20), off))

C10_Witness ==
    /\ Computed
    /\ Len(TheLocals.room_type_stats) = 2
    /\ Len(TheLocals.counted) = 3
    /\ Positive(TheLocals.total_area)

\* C9: an analyze_step2 request that repeats the one answered just before
\* (same id, same parameters, same estimator result) is answered with the
\* same report, and no step changes a stored merged table or the step 1
\* data stored with it.
C9_RerunIdentical ==
    /\ [][(/\ last.endpoint = "step2"
           /\ last.status = 200
           /\ last'.endpoint = "step2"
           /\ last'.status = 200
           /\ last'.input.repeats)
             => last'.body = last.body]_vars
    /\ [][\A id \in DOMAIN store :
             /\ id \in DOMAIN store'
             /\ store'[id].merged_df = store[id].merged_df
             /\ store'[id].metrics = store[id].metrics
             /\ store'[id].step1_data = store[id].step1_data
             /\ store'[id].details = store[id].details]_vars

C9_Witness ==
    Computed /\ last.input.repeats

----------------------------------------------------------------------------
(* merge_heating_ventilation_excel (src/power/merge_excel_files.py), from  *)
(* its contract: the rows of the two sheets are joined on the room number  *)
(* (how='outer'); rows without a room number are never matched and each    *)
(* becomes a row of its own; a join group keeps the area of both sources   *)
(* and a resolved area, the heating one unless it is missing.              *)

ColAreaHeating == "Fläche_heating"
ColAreaVentilation == "Fläche_ventilation"
MergedCols == {ColRoom, area_cols[1], ColAreaHeating, ColAreaVentilation}

\* A row of a source sheet: its room number (or NoRoom) and its area (or NaN).
SheetRow(room_nr, area) == [room_nr |-> room_nr, area |-> area]

\* The first area present among a sheet's rows of a room, NaN when none is.
RECURSIVE FirstArea(_, _, _)
FirstArea(rows, room_nr, i) ==
    IF i > Len(rows) THEN NaN
    ELSE IF rows[i].room_nr = room_nr /\ ~IsNaN(rows[i].area) THEN rows[i].area
    ELSE FirstArea(rows, room_nr, i + 1)

\* The resolved value of a role: the heating value unless it is missing.
Resolved(heating_value, ventilation_value) ==
    IF ~IsNaN(heating_value) THEN heating_value ELSE ventilation_value

MergedRow(room_nr, heating_value, ventilation_value) ==
    (ColRoom :> room_nr) @@ (area_cols[1] :> Resolved(heating_value, ventilation_value))
    @@ (ColAreaHeating :> heating_value) @@ (ColAreaVentilation :> ventilation_value)

\* The room numbers of rows[i..] not in seen, each once, in order of first
\* appearance.
RECURSIVE JoinKeys(_, _, _)
JoinKeys(rows, i, seen) ==
    IF i > Len(rows) THEN <<>>
    ELSE IF rows[i].room_nr = NoRoom \/ rows[i].room_nr \in seen
    THEN JoinKeys(rows, i + 1, seen)
    ELSE <<rows[i].room_nr>> \o JoinKeys(rows, i + 1, seen \cup {rows[i].room_nr})

\* The join keys of an inner join: the room numbers of both sheets.
InnerKeys(heatingRows, ventilationRows) ==
    SelectSeq(JoinKeys(heatingRows, 1, {}),
              LAMBDA k : \E i \in 1..Len(ventilationRows) : ventilationRows[i].room_nr = k)

\* The join keys of the outer join: the room numbers of either sheet.
OuterKeys(heatingRows, ventilationRows) ==
    JoinKeys(heatingRows \o ventilationRows, 1, {})

\* The merge's outcome for the rows of the two sheets; it raises when no
\* room number is left.  The sheets are kept with the outcome as history.
merge_heating_ventilation_excel(heatingRows, ventilationRows) ==
    LET keys == OuterKeys(heatingRows, ventilationRows)
        groups == [k \in 1..Len(keys) |->
                      MergedRow(keys[k], FirstArea(heatingRows, keys[k], 1),
                                FirstArea(ventilationRows, keys[k], 1))]
        hs == SelectSeq(heatingRows, LAMBDA r : r.room_nr = NoRoom)
        vs == SelectSeq(ventilationRows, LAMBDA r : r.room_nr = NoRoom)
        singles == [i \in 1..Len(hs) |-> MergedRow(NoRoom, hs[i].area, NaN)]
                   \o [i \in 1..Len(vs) |-> MergedRow(NoRoom, NaN, vs[i].area)]
    IN  [raised |-> Len(keys) = 0,
         exc |-> IF Len(keys) = 0
                 THEN [type |-> "ValueError", cause |-> "EmptyMergeError"]
                 ELSE NoExc,
         df |-> IF Len(keys) = 0 THEN Table({}, <<>>) ELSE Table(MergedCols, groups \o singles),
         heating |-> heatingRows,
         ventilation |-> ventilationRows]

----------------------------------------------------------------------------
(* The merge model: one analyze_step1 request that has saved its uploads,  *)
(* the merge of every pair of small sheets, and one analyze_step2 request  *)
(* for the stored analysis.                                                *)

MaxSheetRows == 2

HeatingRows ==
    {SheetRow(RoomNames[1], Num(20)), SheetRow(RoomNames[2], Num(20)),
     SheetRow(NoRoom, Num(20)), SheetRow(RoomNames[1], NaN)}

VentilationRows ==
    {SheetRow(RoomNames[1], Num(30)), SheetRow(RoomNames[2], Num(30)),
     SheetRow(NoRoom, Num(30)), SheetRow(RoomNames[2], NaN)}

Sheets(rows) == UNION {[1..n -> rows] : n \in 0..MaxSheetRows}

\* The estimator's result in the merge model: estimates for both rooms.
MergeEstimatorOutcomes ==
    {Estimated(<<Item(RoomNames[1], Estimate(Num(40), Num(10), 1)),
                 Item(RoomNames[2], Estimate(Num(30), Num(0), 2))>>)}

MergeInit ==
    /\ store = <<>>
    /\ next_id = 1
    /\ cwd = OriginalDir
    /\ tmpfiles = {HeatingFile(1), VentilationFile(1)}
    /\ reqs = SetToBag({[Locals EXCEPT !.pc = "s1_merge", !.analysis_id = 1,
                                       !.heating_path = TRUE,
                                       !.ventilation_path = TRUE]})
    /\ last = NoResponse
    /\ issued = {}

MergeNext ==
    \/ \E req \in InFlight, heatingRows \in Sheets(HeatingRows),
          ventilationRows \in Sheets(VentilationRows) :
          Step1Merge(req, merge_heating_ventilation_excel(heatingRows, ventilationRows),
                     [raised |-> FALSE, exc |-> NoExc])
    \/ /\ reqs = EmptyBag
       /\ last.endpoint = "step1"
       /\ last.status = 200
       /\ Step2Begin(1, NoParameters)
    \/ \E req \in InFlight, estimation \in MergeEstimatorOutcomes : Step2End(req, estimation)

MergeSpec == MergeInit /\ [][MergeNext]_vars

\* The room numbers of a sheet.
RoomsOf(rows) == {rows[i].room_nr : i \in 1..Len(rows)} \ {NoRoom}

\* The room numbers of the two sheets the last merge was given.
SourceRooms == RoomsOf(last.input.merge.heating) \cup RoomsOf(last.input.merge.ventilation)

\* C11: the outer merge keeps every room: each room number of either sheet
\* is in exactly one row of the merged table, the table has no other room
\* number, analyze_step1 stores this table, and the merge raises only when
\* the sheets have no room number.
C11_OuterMergeKeepsRooms ==
    AfterMerge =>
        LET df == last.input.merge.df
        IN  /\ last.input.merge.raised <=> SourceRooms = {}
            /\ ~last.input.merge.raised =>
                  /\ \A r \in SourceRooms :
                        Cardinality({i \in 1..Len(df.rows) : df.rows[i][ColRoom] = r}) = 1
                  /\ \A i \in 1..Len(df.rows) :
                        df.rows[i][ColRoom] \in SourceRooms \cup {NoRoom}
                  /\ last.status = 200
                  /\ store[last.analysis_id].merged_df = df

C11_Witness ==
    /\ AfterMerge
    /\ ~last.input.merge.raised
    /\ RoomsOf(last.input.merge.heating) = {RoomNames[1]}
    /\ RoomsOf(last.input.merge.ventilation) = {RoomNames[1], RoomNames[2]}
    /\ Len(last.input.merge.heating) = 2

\* The area the contract resolves for a room of the two sheets the last
\* merge was given: the heating sheet's unless it has none.
ClaimedArea(room_nr) ==
    LET heating_value == FirstArea(last.input.merge.heating, room_nr, 1)
    IN  IF ~IsNaN(heating_value) THEN heating_value
        ELSE FirstArea(last.input.merge.ventilation, room_nr, 1)

\* The first row of a room in the stored table.
TheRow(room_nr) ==
    TheTable.rows[CHOOSE j \in 1..Len(TheTable.rows) :
                     /\ TheTable.rows[j][ColRoom] = room_nr
                     /\ \A k \in 1..(j - 1) : TheTable.rows[k][ColRoom] # room_nr]

----------------------------------------------------------------------------
(* Properties of the working directory and of the temporary files.         *)

\* Some analyze_step2 request is suspended in the power estimation.
Estimating == \E req \in InFlight : req.pc = "s2_estimate"

\* C13: whenever no analyze_step2 request is in its power estimation (none
\* has started, or all that started have finished), the working directory
\* is the one the process had before the first of them started.
C13_CwdRestored == ~Estimating => cwd = OriginalDir

\* C14: while an analyze_step2 request is suspended in the power
\* estimation, the working directory is the power directory.
C14_CwdIsPowerDir == Estimating => cwd = PowerDir

----------------------------------------------------------------------------
(* The upload model: the endpoint model in which each await of             *)
(* analyze_step1 may also raise asyncio.CancelledError (the request is     *)
(* cancelled while it is suspended).                                       *)

Cancelled == Raise("CancelledError", "")

UploadReadOutcomes == ReadOutcomes \cup {Cancelled}

UploadMergeOutcomes == MergeOutcomes \cup {MergeRaise("CancelledError", "")}

UploadNext ==
    \/ \E h \in Extensions, v \in Extensions : Step1Begin(h, v)
    \/ \E req \in InFlight, read \in UploadReadOutcomes : Step1HeatingRead(req, read)
    \/ \E req \in InFlight, read \in UploadReadOutcomes : Step1VentilationRead(req, read)
    \/ \E req \in InFlight, merge \in UploadMergeOutcomes, export \in ExportOutcomes :
          Step1Merge(req, merge, export)
    \/ \E analysis_id \in AnalysisIds, parameters \in ParameterChoices :
          Step2Begin(analysis_id, parameters)
    \/ \E req \in InFlight, estimation \in EstimatorOutcomes : Step2End(req, estimation)
    \/ \E analysis_id \in AnalysisIds : get_status(analysis_id)

UploadSpec == Init /\ [][UploadNext]_vars

\* C15: every temporary file that exists belongs to an analyze_step1
\* request that has not finished yet: once a request has finished, in any
\* way, neither of its two files exists, and a request rejected for its
\* file extension has created none.
C15_TempFilesRemoved ==
    \A f \in tmpfiles : \E req \in InFlight : req.analysis_id = f[1]

----------------------------------------------------------------------------
(* Properties of get_status and of a failing analyze_step2.                *)

\* The stored dict of an analysis has the results of analyze_step2.
HasReport(s, analysis_id) == "step2_data" \in DOMAIN s[analysis_id]

\* C16: get_status answers a known id with state 'completed' and progress
\* 100, never 'processing'; its step is 'report' exactly when the stored
\* analysis has step 2 results, which appear with the first successful
\* analyze_step2 for the id, are there after every successful one, and
\* never disappear.
C16_StatusSteps ==
    /\ [](last.endpoint = "status" /\ last.status = 200
            => /\ last.body.state = "completed"
               /\ last.body.progressPercent = 100
               /\ last.body.step = IF HasReport(store, last.analysis_id)
                                   THEN "report" ELSE "step1")
    /\ [][\A id \in DOMAIN store' :
             /\ (HasReport(store', id) /\ ~(id \in DOMAIN store /\ HasReport(store, id)))
                   => /\ last'.endpoint = "step2"
                      /\ last'.status = 200
                      /\ last'.analysis_id = id
             /\ (id \in DOMAIN store /\ HasReport(store, id)) => HasReport(store', id)]_vars
    /\ [](last.endpoint = "step2" /\ last.status = 200
            => HasReport(store, last.analysis_id))

C16_Witness ==
    /\ last.endpoint = "status"
    /\ last.status = 200
    /\ last.body.step = "step1"
    /\ Estimating

\* C17: an analyze_step2 request answered 500 leaves the store as it was.
C17_FailedStep2LeavesStore ==
    [][(last'.endpoint = "step2" /\ last'.status = 500) => store' = store]_vars

C17_Witness ==
    /\ last.endpoint = "step2"
    /\ last.status = 500
    /\ ~last.input.estimation.raised
    /\ ~HasReport(store, last.analysis_id)

====
